---------------------------- MODULE Spec2Model ----------------------------
(***************************************************************************)
(* The commit-reveal round protocol of contracts/TriviaGame.sol.           *)
(*                                                                         *)
(* Every external function of the contract is one action.  A transaction   *)
(* is atomic: a failed require reverts the whole call and leaves           *)
(* everything as it was, so a failing call is a stuttering step and the    *)
(* action of a call is enabled where the call succeeds.  The ...Err        *)
(* operator of a call follows its requires in their order: it gives the    *)
(* reason of the revert in the state the call is made in, and "" when the  *)
(* call succeeds.                                                          *)
(*                                                                         *)
(* Strings are sequences of characters.  Token amounts are counted in      *)
(* whole tokens (10 ** 18 base units).                                     *)
(***************************************************************************)
EXTENDS Integers, Sequences, FiniteSets, TLC

(***************************************************************************)
(* Bounds of the model.                                                    *)
(***************************************************************************)
MaxRounds == 2
GameFunding == 0
MaxSteps == 7
RewardFunding == 100

(***************************************************************************)
(* Program constants, in whole tokens and seconds.                         *)
(***************************************************************************)
ROUND_DURATION == 60
CORRECT_REWARD == 10
PARTICIPATION_REWARD == 1
BONUS_REWARD == 5
BonusPositions == 5

(***************************************************************************)
(* Addresses.  Owner is the deployer (Ownable's constructor).              *)
(***************************************************************************)
Owner == "owner"
Game == "game"
Addresses == {"owner", "alice"}

\* The round ids of calls.  An id is that of a round never created until
\* startNewRound reaches it.
RoundIds == 1..MaxRounds

(***************************************************************************)
(* The strings callers supply.                                             *)
(***************************************************************************)
Answers == {<<"p">>, <<"p", "x">>}
Salts == {<<>>, <<"x">>}
Questions == {"q"}
CorrectAnswers == {<<"p">>, <<"P">>}

(***************************************************************************)
(* keccak256 and abi.encodePacked.  encodePacked of strings is the plain   *)
(* concatenation of their bytes, without lengths.  keccak256 is taken as   *)
(* collision-free: the digest of b is b under a tag, and no digest is the  *)
(* all-zero word.                                                          *)
(***************************************************************************)
ZeroHash == <<>>
keccak256(b) == <<"keccak">> \o b
encodePacked2(a, s) == a \o s
encodePacked1(a) == a

\* The 32-byte words callers commit: the all-zero word and the digest of
\* "p" followed by "x".
CommitHashes == {ZeroHash, keccak256(encodePacked2(<<"p">>, <<"x">>))}

VARIABLES now, currentRoundId, rounds, playerAnswers, playerScores,
          playerStreaks, lastPlayedRound, balances, commits, reveals,
          revealArgs, revealLog, rewardLog, steps

\* The contract's storage.
storage == <<currentRoundId, rounds, playerAnswers, playerScores,
             playerStreaks, lastPlayedRound>>
\* The history of the run, as the AnswerCommitted and AnswerRevealed events
\* tell it: how many commitAnswer and revealAnswer calls of each address
\* have succeeded for each round, the arguments of the last such
\* revealAnswer, and for each address the rounds and results of its
\* AnswerRevealed events in the order they were emitted.
plays == <<commits, reveals, revealArgs, revealLog>>
\* rewardLog is the sequence of the RewardDistributed events of the run, each
\* with the round and the 0-based list position it was emitted for.
history == <<commits, reveals, revealArgs, revealLog, rewardLog>>
vars == <<now, currentRoundId, rounds, playerAnswers, playerScores,
          playerStreaks, lastPlayedRound, balances, commits, reveals,
          revealArgs, revealLog, rewardLog, steps>>

(***************************************************************************)
(* The zero values of the two structs: what a mapping holds at a key that  *)
(* was never written.                                                      *)
(***************************************************************************)
ZeroRound ==
  [startTime |-> 0, endTime |-> 0, question |-> "", correctAnswer |-> <<>>,
   isActive |-> FALSE, totalPlayers |-> 0]

ZeroAnswer ==
  [answerHash |-> ZeroHash, hasRevealed |-> FALSE, isCorrect |-> FALSE,
   commitTime |-> 0]

NoArgs == [answer |-> <<>>, salt |-> <<>>]

\* The state after construction, the game holding funding tokens.
Funded(funding) ==
  /\ now = 0
  /\ currentRoundId = 0
  /\ rounds = [r \in RoundIds |-> ZeroRound]
  /\ playerAnswers = [r \in RoundIds |-> [a \in Addresses |-> ZeroAnswer]]
  /\ playerScores = [a \in Addresses |-> 0]
  /\ playerStreaks = [a \in Addresses |-> 0]
  /\ lastPlayedRound = [a \in Addresses |-> 0]
  /\ balances = [a \in Addresses \cup {Game} |->
                   IF a = Game THEN funding ELSE 0]
  /\ commits = [r \in RoundIds |-> [a \in Addresses |-> 0]]
  /\ reveals = [r \in RoundIds |-> [a \in Addresses |-> 0]]
  /\ revealArgs = [r \in RoundIds |-> [a \in Addresses |-> NoArgs]]
  /\ revealLog = [a \in Addresses |-> <<>>]
  /\ rewardLog = <<>>
  /\ steps = 0

Init == Funded(GameFunding)

\* The game funded for rewards, as the tests fund it before each case.
InitRewards == Funded(RewardFunding)

(***************************************************************************)
(* block.timestamp: the clock only moves forward, one round duration at a  *)
(* time, so that a round is met before, at and after its endTime.          *)
(***************************************************************************)
TickStep == ROUND_DURATION

(***************************************************************************)
(* steps is the length of the run: the ticks of the clock and the calls    *)
(* that changed the storage or moved tokens.  A run makes at most MaxSteps *)
(* of them.                                                                *)
(***************************************************************************)
Step == steps < MaxSteps /\ steps' = steps + 1

Tick ==
  /\ Step
  /\ now' = now + TickStep
  /\ UNCHANGED <<storage, balances, history>>

(***************************************************************************)
(* onlyOwner                                                               *)
(***************************************************************************)
\* A variant of OnlyOwnerErr that lets every caller through.
OnlyOwnerErrNobody(sender) == ""

OnlyOwnerErr(sender) ==
  IF sender # Owner THEN "Ownable: caller is not the owner" ELSE ""

(***************************************************************************)
(* startNewRound                                                           *)
(***************************************************************************)
StartNewRoundErr(sender) == OnlyOwnerErr(sender)

\* A variant of NewRound whose round is already over when it is created.
NewRoundEndsAtOnce(question, correctAnswer) ==
  [startTime |-> now, endTime |-> now, question |-> question,
   correctAnswer |-> correctAnswer, isActive |-> TRUE, totalPlayers |-> 0]

NewRound(question, correctAnswer) ==
  [startTime |-> now, endTime |-> now + ROUND_DURATION, question |-> question,
   correctAnswer |-> correctAnswer, isActive |-> TRUE, totalPlayers |-> 0]

\* A variant of StartNewRound that closes the rounds started before.
StartNewRoundClosingOthers(sender, question, correctAnswer) ==
  LET err == StartNewRoundErr(sender) IN
  /\ err = ""
  /\ currentRoundId < MaxRounds
  /\ Step
  /\ currentRoundId' = currentRoundId + 1
  /\ rounds' = [r \in RoundIds |->
                  IF r = currentRoundId + 1
                    THEN NewRound(question, correctAnswer)
                  ELSE [rounds[r] EXCEPT !.isActive = FALSE]]
  /\ UNCHANGED <<now, playerAnswers, playerScores, playerStreaks,
                 lastPlayedRound, balances, history>>

\* A variant of StartNewRound that leaves one id out each time.
StartNewRoundSkipping(sender, question, correctAnswer) ==
  LET err == StartNewRoundErr(sender) IN
  /\ err = ""
  /\ currentRoundId + 1 < MaxRounds
  /\ Step
  /\ currentRoundId' = currentRoundId + 2
  /\ rounds' = [rounds EXCEPT ![currentRoundId + 2] =
                  NewRound(question, correctAnswer)]
  /\ UNCHANGED <<now, playerAnswers, playerScores, playerStreaks,
                 lastPlayedRound, balances, history>>

StartNewRound(sender, question, correctAnswer) ==
  LET err == StartNewRoundErr(sender) IN
  /\ err = ""
  /\ currentRoundId < MaxRounds
  /\ Step
  /\ currentRoundId' = currentRoundId + 1
  /\ rounds' = [rounds EXCEPT ![currentRoundId + 1] =
                  NewRound(question, correctAnswer)]
  /\ UNCHANGED <<now, playerAnswers, playerScores, playerStreaks,
                 lastPlayedRound, balances, history>>

(***************************************************************************)
(* commitAnswer                                                            *)
(***************************************************************************)
\* A variant of CommitWindowOpen that admits a commit at endTime itself.
CommitWindowInclusive(roundId) == now <= rounds[roundId].endTime

CommitWindowOpen(roundId) == now < rounds[roundId].endTime

\* A variant of CommitAnswerErr that accepts a commit over a stored one.
CommitAnswerErrOverwriting(sender, roundId) ==
  IF ~rounds[roundId].isActive THEN "Round not active"
  ELSE IF ~CommitWindowOpen(roundId) THEN "Round ended"
  ELSE ""

CommitAnswerErr(sender, roundId) ==
  IF ~rounds[roundId].isActive THEN "Round not active"
  ELSE IF ~CommitWindowOpen(roundId) THEN "Round ended"
  ELSE IF ~(playerAnswers[roundId][sender].answerHash = ZeroHash)
    THEN "Already committed"
  ELSE ""

\* A variant of NewAnswer that stores the commitment as a correct one.
NewAnswerCorrect(answerHash) ==
  [answerHash |-> answerHash, hasRevealed |-> FALSE, isCorrect |-> TRUE,
   commitTime |-> now]

NewAnswer(answerHash) ==
  [answerHash |-> answerHash, hasRevealed |-> FALSE, isCorrect |-> FALSE,
   commitTime |-> now]

\* A variant of CommitAnswer that keeps one commitment per address, for
\* all rounds.
CommitAnswerShared(sender, roundId, answerHash) ==
  LET err == CommitAnswerErr(sender, roundId) IN
  /\ err = ""
  /\ Step
  /\ playerAnswers' = [r \in RoundIds |->
                         [playerAnswers[r] EXCEPT ![sender] =
                            NewAnswer(answerHash)]]
  /\ rounds' = [rounds EXCEPT ![roundId].totalPlayers = @ + 1]
  /\ commits' = [commits EXCEPT ![roundId][sender] = @ + 1]
  /\ UNCHANGED <<now, currentRoundId, playerScores, playerStreaks,
                 lastPlayedRound, balances, reveals, revealArgs,
                 revealLog, rewardLog>>

\* A variant of CommitAnswer that records the round as played.
CommitAnswerPlaying(sender, roundId, answerHash) ==
  LET err == CommitAnswerErr(sender, roundId) IN
  /\ err = ""
  /\ Step
  /\ playerAnswers' = [playerAnswers EXCEPT ![roundId][sender] =
                         NewAnswer(answerHash)]
  /\ rounds' = [rounds EXCEPT ![roundId].totalPlayers = @ + 1]
  /\ commits' = [commits EXCEPT ![roundId][sender] = @ + 1]
  /\ lastPlayedRound' = [lastPlayedRound EXCEPT ![sender] = roundId]
  /\ UNCHANGED <<now, currentRoundId, playerScores, playerStreaks,
                 balances, reveals, revealArgs, revealLog, rewardLog>>

CommitAnswer(sender, roundId, answerHash) ==
  LET err == CommitAnswerErr(sender, roundId) IN
  /\ err = ""
  /\ Step
  /\ playerAnswers' = [playerAnswers EXCEPT ![roundId][sender] =
                         NewAnswer(answerHash)]
  /\ rounds' = [rounds EXCEPT ![roundId].totalPlayers = @ + 1]
  /\ commits' = [commits EXCEPT ![roundId][sender] = @ + 1]
  /\ UNCHANGED <<now, currentRoundId, playerScores, playerStreaks,
                 lastPlayedRound, balances, reveals, revealArgs,
                 revealLog, rewardLog>>

(***************************************************************************)
(* revealAnswer                                                            *)
(***************************************************************************)
\* A variant of RevealWindowOpen that opens the reveal when the round starts.
RevealWindowFromStart(roundId) == now >= rounds[roundId].startTime

\* A variant of RevealWindowOpen that closes the reveal one round
\* duration after endTime.
RevealWindowWithDeadline(roundId) ==
  /\ now >= rounds[roundId].endTime
  /\ now < rounds[roundId].endTime + ROUND_DURATION

RevealWindowOpen(roundId) == now >= rounds[roundId].endTime

\* A variant of HashMatches that leaves the salt out of the digest.
HashMatchesAnswerOnly(stored, answer, salt) ==
  stored = keccak256(encodePacked1(answer))

HashMatches(stored, answer, salt) ==
  stored = keccak256(encodePacked2(answer, salt))

\* A variant of AlreadyRevealed that never finds a reveal.
AlreadyRevealedNever(sender, roundId) == FALSE

AlreadyRevealed(sender, roundId) ==
  playerAnswers[roundId][sender].hasRevealed

\* A variant of RevealAnswerErr that compares the hash before it looks at
\* hasRevealed.
RevealAnswerErrHashFirst(sender, roundId, answer, salt) ==
  IF ~rounds[roundId].isActive THEN "Round not active"
  ELSE IF ~RevealWindowOpen(roundId) THEN "Round still active"
  ELSE IF ~(playerAnswers[roundId][sender].answerHash # ZeroHash)
    THEN "No answer committed"
  ELSE IF ~HashMatches(playerAnswers[roundId][sender].answerHash, answer, salt)
    THEN "Hash mismatch"
  ELSE IF AlreadyRevealed(sender, roundId) THEN "Already revealed"
  ELSE ""

RevealAnswerErr(sender, roundId, answer, salt) ==
  IF ~rounds[roundId].isActive THEN "Round not active"
  ELSE IF ~RevealWindowOpen(roundId) THEN "Round still active"
  ELSE IF ~(playerAnswers[roundId][sender].answerHash # ZeroHash)
    THEN "No answer committed"
  ELSE IF AlreadyRevealed(sender, roundId) THEN "Already revealed"
  ELSE IF ~HashMatches(playerAnswers[roundId][sender].answerHash, answer, salt)
    THEN "Hash mismatch"
  ELSE ""

\* Lower-case letters for upper-case ones.
LowerChar(c) == IF c = "P" THEN "p" ELSE IF c = "X" THEN "x" ELSE c
Lower(s) == [i \in 1..Len(s) |-> LowerChar(s[i])]

\* A variant of AnswerIsCorrect that ignores the case of the letters.
AnswerIsCorrectNoCase(answer, correctAnswer) ==
  keccak256(encodePacked1(Lower(answer))) =
    keccak256(encodePacked1(Lower(correctAnswer)))

AnswerIsCorrect(answer, correctAnswer) ==
  keccak256(encodePacked1(answer)) = keccak256(encodePacked1(correctAnswer))

\* A variant of ScoreAfter that resets the score on a wrong answer, as the
\* streak is.
ScoreAfterReset(score, isCorrect) == IF isCorrect THEN score + 1 ELSE 0

\* A variant of ScoreAfter that counts every reveal.
ScoreAfterForAny(score, isCorrect) == score + 1

ScoreAfter(score, isCorrect) == IF isCorrect THEN score + 1 ELSE score

\* A variant of StreakAfter that keeps the streak on a wrong answer.
StreakAfterKeep(streak, isCorrect) ==
  IF isCorrect THEN streak + 1 ELSE streak

\* A variant of StreakAfter that counts every reveal.
StreakAfterForAny(streak, isCorrect) == streak + 1

StreakAfter(streak, isCorrect) == IF isCorrect THEN streak + 1 ELSE 0

AnswerRevealed(roundId, isCorrect) ==
  [roundId |-> roundId, isCorrect |-> isCorrect]

RevealAnswer(sender, roundId, answer, salt) ==
  LET err == RevealAnswerErr(sender, roundId, answer, salt)
      isCorrect == AnswerIsCorrect(answer, rounds[roundId].correctAnswer)
  IN
  /\ err = ""
  /\ Step
  /\ playerAnswers' =
       [playerAnswers EXCEPT ![roundId][sender].hasRevealed = TRUE,
                             ![roundId][sender].isCorrect = isCorrect]
  /\ playerScores' = [playerScores EXCEPT ![sender] =
                        ScoreAfter(@, isCorrect)]
  /\ playerStreaks' = [playerStreaks EXCEPT ![sender] =
                         StreakAfter(@, isCorrect)]
  /\ lastPlayedRound' = [lastPlayedRound EXCEPT ![sender] = roundId]
  /\ reveals' = [reveals EXCEPT ![roundId][sender] = @ + 1]
  /\ revealArgs' = [revealArgs EXCEPT ![roundId][sender] =
                      [answer |-> answer, salt |-> salt]]
  /\ revealLog' = [revealLog EXCEPT ![sender] =
                     Append(@, AnswerRevealed(roundId, isCorrect))]
  /\ UNCHANGED <<now, currentRoundId, rounds, balances, commits,
                 rewardLog>>

(***************************************************************************)
(* triviaToken.transfer(to, amount) called by the game: TriviaToken is an  *)
(* ERC20 whose transfer moves the amount when the sender's balance covers  *)
(* it and fails otherwise.                                                 *)
(***************************************************************************)
\* A variant of TransferOk for a token that does not look at the balance.
TransferOkUnchecked(bal, amount) == TRUE

TransferOk(bal, amount) == bal[Game] >= amount

\* A variant of TransferTo that credits the recipient out of nothing.
TransferToMinting(bal, to, amount) == [bal EXCEPT ![to] = @ + amount]

TransferTo(bal, to, amount) ==
  [bal EXCEPT ![Game] = @ - amount, ![to] = @ + amount]

(***************************************************************************)
(* distributeRewards                                                       *)
(***************************************************************************)
\* A variant of DistributeRewardsChecks that refuses a round already paid
\* for.
DistributeRewardsChecksOnce(sender, roundId) ==
  IF OnlyOwnerErr(sender) # "" THEN OnlyOwnerErr(sender)
  ELSE IF ~rounds[roundId].isActive THEN "Round not active"
  ELSE IF ~(now >= rounds[roundId].endTime) THEN "Round still active"
  ELSE IF \E k \in DOMAIN rewardLog : rewardLog[k].roundId = roundId
    THEN "Already distributed"
  ELSE ""

\* A variant of DistributeRewardsChecks that does not look at isActive.
DistributeRewardsChecksEnded(sender, roundId) ==
  IF OnlyOwnerErr(sender) # "" THEN OnlyOwnerErr(sender)
  ELSE IF ~(now >= rounds[roundId].endTime) THEN "Round still active"
  ELSE ""

DistributeRewardsChecks(sender, roundId) ==
  IF OnlyOwnerErr(sender) # "" THEN OnlyOwnerErr(sender)
  ELSE IF ~rounds[roundId].isActive THEN "Round not active"
  ELSE IF ~(now >= rounds[roundId].endTime) THEN "Round still active"
  ELSE ""

\* A variant of Reward that adds the bonus at every position.
RewardBonusEverywhere(answer, i) ==
  IF answer.hasRevealed
    THEN IF answer.isCorrect THEN CORRECT_REWARD + BONUS_REWARD
                             ELSE PARTICIPATION_REWARD
    ELSE 0

\* A variant of Reward that adds the positional bonus to a wrong answer too.
RewardBonusForWrong(answer, i) ==
  IF answer.hasRevealed
    THEN (IF answer.isCorrect THEN CORRECT_REWARD ELSE PARTICIPATION_REWARD)
           + (IF i < BonusPositions THEN BONUS_REWARD ELSE 0)
    ELSE 0

\* A variant of Reward that pays the participation reward to an address
\* that has not revealed.
RewardForUnrevealed(answer, i) ==
  IF answer.isCorrect
    THEN IF i < BonusPositions THEN CORRECT_REWARD + BONUS_REWARD
                               ELSE CORRECT_REWARD
    ELSE PARTICIPATION_REWARD

\* The reward of the entry at 0-based position i of the list.
Reward(answer, i) ==
  IF answer.hasRevealed
    THEN IF answer.isCorrect
           THEN IF i < BonusPositions THEN CORRECT_REWARD + BONUS_REWARD
                                      ELSE CORRECT_REWARD
           ELSE PARTICIPATION_REWARD
    ELSE 0

RewardDistributed(roundId, i, player, amount) ==
  [roundId |-> roundId, pos |-> i, player |-> player, amount |-> amount]

\* The loop, from 0-based position i on: the balances after it and the
\* events it emitted, or the failure of the transfer that stopped it.
RECURSIVE PayFrom(_, _, _, _)
PayFrom(roundId, players, i, bal) ==
  IF i >= Len(players) THEN [ok |-> TRUE, bal |-> bal, log |-> <<>>]
  ELSE LET player == players[i + 1]
           reward == Reward(playerAnswers[roundId][player], i)
       IN IF reward > 0
            THEN IF TransferOk(bal, reward)
                   THEN LET rest == PayFrom(roundId, players, i + 1,
                                            TransferTo(bal, player, reward))
                        IN [rest EXCEPT !.log =
                              <<RewardDistributed(roundId, i, player, reward)>>
                                \o @]
                   ELSE [ok |-> FALSE, bal |-> bal, log |-> <<>>]
            ELSE PayFrom(roundId, players, i + 1, bal)

DistributeRewardsErr(sender, roundId, players) ==
  IF DistributeRewardsChecks(sender, roundId) # ""
    THEN DistributeRewardsChecks(sender, roundId)
  ELSE IF ~PayFrom(roundId, players, 0, balances).ok
    THEN "Token transfer failed"
  ELSE ""

\* A variant of DistributeRewards that closes the round it has paid.
DistributeRewardsClosing(sender, roundId, players) ==
  LET err == DistributeRewardsErr(sender, roundId, players)
      paid == PayFrom(roundId, players, 0, balances)
  IN
  /\ err = ""
  /\ balances' = paid.bal
  /\ rewardLog' = rewardLog \o paid.log
  /\ Step
  /\ rounds' = [rounds EXCEPT ![roundId].isActive = FALSE]
  /\ UNCHANGED <<now, currentRoundId, playerAnswers, playerScores,
                 playerStreaks, lastPlayedRound, plays>>

DistributeRewards(sender, roundId, players) ==
  LET err == DistributeRewardsErr(sender, roundId, players)
      paid == PayFrom(roundId, players, 0, balances)
  IN
  /\ err = ""
  /\ balances' = paid.bal
  /\ rewardLog' = rewardLog \o paid.log
  /\ IF paid.log # <<>> THEN Step ELSE UNCHANGED steps
  /\ UNCHANGED <<now, storage, plays>>

(***************************************************************************)
(* Re-entrancy.  The functions that carry the nonReentrant modifier hold   *)
(* the guard while they run; a call that arrives while the guard is held   *)
(* and asks for it again reverts.  distributeRewards does not carry the    *)
(* modifier, so the guard is free while its transfers run.                 *)
(***************************************************************************)
NonReentrant == {"commitAnswer", "revealAnswer"}

NonReentrantErr(running, called) ==
  IF running \in NonReentrant /\ called \in NonReentrant
    THEN "ReentrancyGuard: reentrant call"
  ELSE ""

\* distributeRewards(roundId, players) by sender, during whose transfer at
\* position i the token calls out and caller calls
\* distributeRewards(roundId, inner) before the transfer returns.
DistributeRewardsReentered(sender, roundId, players, i, caller, inner) ==
  LET before == PayFrom(roundId, SubSeq(players, 1, i), 0, balances)
      nested == PayFrom(roundId, inner, 0, before.bal)
      after == PayFrom(roundId, players, i, nested.bal)
  IN
  /\ DistributeRewardsChecks(sender, roundId) = ""
  /\ i \in 0..(Len(players) - 1)
  /\ Reward(playerAnswers[roundId][players[i + 1]], i) > 0
  /\ before.ok
  /\ NonReentrantErr("distributeRewards", "distributeRewards") = ""
  /\ DistributeRewardsChecks(caller, roundId) = ""
  /\ nested.ok /\ nested.log # <<>>
  /\ after.ok
  /\ balances' = after.bal
  /\ rewardLog' = rewardLog \o before.log \o nested.log \o after.log
  /\ Step
  /\ UNCHANGED <<now, storage, plays>>

(***************************************************************************)
(* emergencyEndRound                                                       *)
(***************************************************************************)
EmergencyEndRoundErr(sender) == OnlyOwnerErr(sender)

\* A variant of EmergencyEndRound that deletes the round.
EmergencyEndRoundDeleting(sender, roundId) ==
  LET err == EmergencyEndRoundErr(sender) IN
  /\ err = ""
  /\ IF rounds[roundId].isActive THEN Step ELSE UNCHANGED steps
  /\ rounds' = [rounds EXCEPT ![roundId] = ZeroRound]
  /\ UNCHANGED <<now, currentRoundId, playerAnswers, playerScores,
                 playerStreaks, lastPlayedRound, balances, history>>

EmergencyEndRound(sender, roundId) ==
  LET err == EmergencyEndRoundErr(sender) IN
  /\ err = ""
  /\ IF rounds[roundId].isActive THEN Step ELSE UNCHANGED steps
  /\ rounds' = [rounds EXCEPT ![roundId].isActive = FALSE]
  /\ UNCHANGED <<now, currentRoundId, playerAnswers, playerScores,
                 playerStreaks, lastPlayedRound, balances, history>>

(***************************************************************************)
(* withdrawTokens                                                          *)
(***************************************************************************)
WithdrawTokensErr(sender, amount) ==
  IF OnlyOwnerErr(sender) # "" THEN OnlyOwnerErr(sender)
  ELSE IF ~TransferOk(balances, amount) THEN "Token transfer failed"
  ELSE ""

WithdrawTokens(sender, amount) ==
  LET err == WithdrawTokensErr(sender, amount) IN
  /\ err = ""
  /\ balances' = TransferTo(balances, Owner, amount)
  /\ IF amount > 0 THEN Step ELSE UNCHANGED steps
  /\ UNCHANGED <<now, storage, history>>

(***************************************************************************)
(* The inputs of the owner-only calls.                                     *)
(***************************************************************************)
Rep(a, n) == [i \in 1..n |-> a]

PlayerLists ==
  {<<>>, <<"alice">>, <<"owner", "alice">>, <<"alice", "alice">>,
   Rep("alice", BonusPositions + 1),
   <<"owner">> \o Rep("alice", BonusPositions + 1),
   Rep("alice", BonusPositions) \o <<"owner">>}
WithdrawAmounts == {0, PARTICIPATION_REWARD}

Next ==
  \/ Tick
  \/ \E s \in Addresses, q \in Questions, c \in CorrectAnswers :
       StartNewRound(s, q, c)
  \/ \E s \in Addresses, r \in RoundIds, h \in CommitHashes :
       CommitAnswer(s, r, h)
  \/ \E s \in Addresses, r \in RoundIds, a \in Answers, x \in Salts :
       RevealAnswer(s, r, a, x)
  \/ \E s \in Addresses, r \in RoundIds, ps \in PlayerLists :
       DistributeRewards(s, r, ps)
  \/ \E s \in Addresses, r \in RoundIds : EmergencyEndRound(s, r)
  \/ \E s \in Addresses, amt \in WithdrawAmounts : WithdrawTokens(s, amt)

Spec == Init /\ [][Next]_vars

(***************************************************************************)
(* The views.                                                              *)
(***************************************************************************)
getStreak(player) == playerStreaks[player]

getScore(player) == playerScores[player]

\* A variant of getRoundInfo that keeps the answer back while commits are
\* still accepted.
getRoundInfoHidingAnswer(roundId) ==
  <<rounds[roundId].startTime, rounds[roundId].endTime,
    rounds[roundId].question,
    IF now < rounds[roundId].endTime THEN <<>>
    ELSE rounds[roundId].correctAnswer,
    rounds[roundId].isActive, rounds[roundId].totalPlayers>>

getRoundInfo(roundId) ==
  <<rounds[roundId].startTime, rounds[roundId].endTime,
    rounds[roundId].question, rounds[roundId].correctAnswer,
    rounds[roundId].isActive, rounds[roundId].totalPlayers>>

hasCommitted(player, roundId) ==
  playerAnswers[roundId][player].answerHash # ZeroHash

hasRevealed(player, roundId) == playerAnswers[roundId][player].hasRevealed

isCorrect(player, roundId) == playerAnswers[roundId][player].isCorrect

\* The runs of the funded game.
SpecRewards == InitRewards /\ [][Next]_vars

\* The runs of the funded game whose token calls out during a transfer.
ReentrantLists == {<<"alice">>, <<"owner", "alice">>}

NextReentrant ==
  \/ Next
  \/ \E s \in Addresses, r \in RoundIds, ps \in ReentrantLists,
        i \in 0..1, c \in Addresses, inner \in ReentrantLists :
       DistributeRewardsReentered(s, r, ps, i, c, inner)

SpecReentrant == InitRewards /\ [][NextReentrant]_vars

(***************************************************************************)
(* The error taxonomy: the revert reasons that report an invalid state of  *)
(* the round for the requested operation.                                  *)
(***************************************************************************)
InvalidState == {"Round not active", "Round ended", "Round still active"}

\* A revealAnswer of address p for round r has succeeded; the step is one
\* in which a revealAnswer, or a commitAnswer, of p for r succeeds.
Revealed(p, r) == reveals[r][p] > 0
RevealStep(p, r) == reveals'[r][p] = reveals[r][p] + 1
CommitStep(p, r) == commits'[r][p] = commits[r][p] + 1

\* Address p holds an unrevealed commitment for round r, which is active
\* and past its commit window.
Revealable(p, r) ==
  /\ rounds[r].isActive
  /\ now >= rounds[r].endTime
  /\ playerAnswers[r][p].answerHash # ZeroHash
  /\ ~playerAnswers[r][p].hasRevealed

(***************************************************************************)
(* C1: revealAnswer succeeds only if keccak256(answer || salt) is the      *)
(* answerHash the caller stored for the round; with the round active, the  *)
(* window closed and an unrevealed commitment whose hash differs, it fails *)
(* with "Hash mismatch", and the failing call changes nothing.             *)
(***************************************************************************)
C1_SuccessNeedsHash ==
  \A p \in Addresses, r \in RoundIds :
    Revealed(p, r) =>
      playerAnswers[r][p].answerHash =
        keccak256(encodePacked2(revealArgs[r][p].answer, revealArgs[r][p].salt))

C1_MismatchFails ==
  \A p \in Addresses, r \in RoundIds, a \in Answers, s \in Salts :
    ( /\ Revealable(p, r)
      /\ playerAnswers[r][p].answerHash # keccak256(encodePacked2(a, s)) )
    => RevealAnswerErr(p, r, a, s) = "Hash mismatch"

\* A stored commitment changes, and the ledger of its player changes, only
\* in the step of a reveal whose answer and salt hash to the commitment.
C1_RevealStepMatches(p, r) ==
  /\ RevealStep(p, r)
  /\ playerAnswers[r][p].answerHash =
       keccak256(encodePacked2(revealArgs'[r][p].answer,
                               revealArgs'[r][p].salt))

C1_MismatchChangesNothing ==
  /\ \A p \in Addresses, r \in RoundIds :
       ( /\ playerAnswers[r][p].answerHash # ZeroHash
         /\ playerAnswers'[r][p] # playerAnswers[r][p] )
       => C1_RevealStepMatches(p, r)
  /\ \A p \in Addresses :
       ( \/ playerScores'[p] # playerScores[p]
         \/ playerStreaks'[p] # playerStreaks[p]
         \/ lastPlayedRound'[p] # lastPlayedRound[p] )
       => \E r \in RoundIds : C1_RevealStepMatches(p, r)
  /\ \A p \in Addresses, r \in RoundIds :
       RevealStep(p, r) => rounds' = rounds

C2_SingleCommit ==
  \A r \in RoundIds, a \in Addresses : commits[r][a] <= 1

(***************************************************************************)
(* C3, as stated: at most one revealAnswer of an address for a round       *)
(* succeeds, and every later one fails with "Already revealed".            *)
(***************************************************************************)
C3_AtMostOneReveal ==
  \A r \in RoundIds, a \in Addresses : reveals[r][a] <= 1

C3_LaterAlwaysAlreadyRevealed ==
  /\ C3_AtMostOneReveal
  /\ \A p \in Addresses, r \in RoundIds, a \in Answers, s \in Salts :
       reveals[r][p] >= 1 => RevealAnswerErr(p, r, a, s) = "Already revealed"

(***************************************************************************)
(* C3, amended: at most one revealAnswer of an address for a round         *)
(* succeeds; every later one fails, with "Already revealed" while the      *)
(* round is active and with "Round not active" once it was                 *)
(* emergency-ended; the score and the streak of an address change only in  *)
(* the step of its first successful reveal for some round.                 *)
(***************************************************************************)
C3_LaterFails ==
  \A p \in Addresses, r \in RoundIds, a \in Answers, s \in Salts :
    reveals[r][p] >= 1 =>
      RevealAnswerErr(p, r, a, s) =
        (IF rounds[r].isActive THEN "Already revealed" ELSE "Round not active")

C3_ScoreChangesOnFirstReveal ==
  \A p \in Addresses :
    (playerScores'[p] # playerScores[p] \/ playerStreaks'[p] # playerStreaks[p])
      => \E r \in RoundIds : reveals[r][p] = 0 /\ reveals'[r][p] = 1

C3_SingleReveal ==
  /\ [](C3_AtMostOneReveal /\ C3_LaterFails)
  /\ [][C3_ScoreChangesOnFirstReveal]_vars

C3_Witness ==
  \E p \in Addresses, r \in RoundIds, a \in Answers, s \in Salts :
    /\ reveals[r][p] = 1
    /\ ~rounds[r].isActive
    /\ HashMatches(playerAnswers[r][p].answerHash, a, s)
    /\ RevealAnswerErr(p, r, a, s) = "Round not active"

(***************************************************************************)
(* C4: revealAnswer on an active round before its endTime fails with       *)
(* "Round still active", whatever the caller committed and supplies; no    *)
(* commitment is revealed while the clock is before the round's endTime.   *)
(***************************************************************************)
C4_NoEarlyReveal ==
  /\ \A p \in Addresses, r \in RoundIds, a \in Answers, s \in Salts :
       (rounds[r].isActive /\ now < rounds[r].endTime)
         => RevealAnswerErr(p, r, a, s) = "Round still active"
  /\ \A r \in RoundIds, a \in Addresses :
       (playerAnswers[r][a].hasRevealed \/ reveals[r][a] > 0)
         => now >= rounds[r].endTime

C4_Witness ==
  \E p \in Addresses, r \in RoundIds, a \in Answers, s \in Salts :
    /\ rounds[r].isActive
    /\ now < rounds[r].endTime
    /\ HashMatches(playerAnswers[r][p].answerHash, a, s)
    /\ RevealAnswerErr(p, r, a, s) = "Round still active"

(***************************************************************************)
(* C5: commitAnswer fails with InvalidState, and so stores nothing, when   *)
(* the clock has reached the round's endTime (endTime itself included),    *)
(* when the round was emergency-ended and when the round was never         *)
(* created.                                                                *)
(***************************************************************************)
C5_ClosedRoundRejects ==
  \A p \in Addresses, r \in RoundIds :
    (now >= rounds[r].endTime \/ ~rounds[r].isActive \/ r > currentRoundId)
      => CommitAnswerErr(p, r) \in InvalidState

C5_RejectStoresNothing ==
  \A p \in Addresses, r \in RoundIds :
    (now >= rounds[r].endTime \/ ~rounds[r].isActive \/ r > currentRoundId)
      => /\ playerAnswers'[r][p].answerHash = playerAnswers[r][p].answerHash
         /\ playerAnswers'[r][p].commitTime = playerAnswers[r][p].commitTime
         /\ rounds'[r].totalPlayers = rounds[r].totalPlayers
         /\ commits'[r][p] = commits[r][p]

C5_CommitWindow ==
  /\ []C5_ClosedRoundRejects
  /\ [][C5_RejectStoresNothing]_vars

C5_Witness ==
  \E p \in Addresses, r \in RoundIds :
    /\ rounds[r].isActive
    /\ now = rounds[r].endTime
    /\ playerAnswers[r][p].answerHash = ZeroHash
    /\ CommitAnswerErr(p, r) = "Round ended"

(***************************************************************************)
(* C6: once a revealAnswer for a round has succeeded, no commitAnswer for  *)
(* that round succeeds: the commits of a round precede its reveals.        *)
(***************************************************************************)
C6_NoCommitOnceRevealed ==
  \A p \in Addresses, r \in RoundIds :
    (\E a \in Addresses : Revealed(a, r)) => CommitAnswerErr(p, r) # ""

C6_CommitStepBeforeReveals ==
  \A p \in Addresses, r \in RoundIds :
    CommitStep(p, r) => \A a \in Addresses : ~Revealed(a, r)

C6_CommitsBeforeReveals ==
  /\ []C6_NoCommitOnceRevealed
  /\ [][C6_CommitStepBeforeReveals]_vars

C6_Witness ==
  \E p \in Addresses, r \in RoundIds :
    /\ \E a \in Addresses : reveals[r][a] > 0
    /\ commits[r][p] = 0
    /\ rounds[r].isActive
    /\ CommitAnswerErr(p, r) = "Round ended"

(***************************************************************************)
(* C7: a stored commitment binds its player to one answer: any two         *)
(* (answer, salt) pairs that pass revealAnswer's hash check against it     *)
(* have the same answer.                                                   *)
(***************************************************************************)
C7_OneAnswerPerCommitment ==
  \A r \in RoundIds, p \in Addresses :
    playerAnswers[r][p].answerHash # ZeroHash =>
      \A a1 \in Answers, a2 \in Answers, s1 \in Salts, s2 \in Salts :
        ( /\ HashMatches(playerAnswers[r][p].answerHash, a1, s1)
          /\ HashMatches(playerAnswers[r][p].answerHash, a2, s2) )
        => a1 = a2

(***************************************************************************)
(* C8: a successful revealAnswer adds 1 to the caller's score and streak   *)
(* when the answer is correct, sets the streak to 0 and keeps the score    *)
(* when it is not, sets lastPlayedRound to the round and marks the         *)
(* commitment revealed with the result.                                    *)
(***************************************************************************)
C8_Step ==
  \A p \in Addresses, r \in RoundIds :
    RevealStep(p, r) =>
    LET correct == (revealArgs'[r][p].answer = rounds[r].correctAnswer)
    IN /\ playerAnswers'[r][p].hasRevealed
       /\ playerAnswers'[r][p].isCorrect = correct
       /\ lastPlayedRound'[p] = r
       /\ correct => /\ playerScores'[p] = playerScores[p] + 1
                     /\ playerStreaks'[p] = playerStreaks[p] + 1
       /\ ~correct => /\ playerScores'[p] = playerScores[p]
                      /\ playerStreaks'[p] = 0

C8_LedgerUpdate == [][C8_Step]_vars

C8_Witness ==
  \E p \in Addresses, r \in RoundIds :
    /\ Revealed(p, r)
    /\ ~playerAnswers[r][p].isCorrect
    /\ playerScores[p] = 1
    /\ playerStreaks[p] = 0
    /\ lastPlayedRound[p] = r

(***************************************************************************)
(* C9: no step of any operation, failed calls included, lowers the score   *)
(* of any address.                                                         *)
(***************************************************************************)
C9_Step == \A a \in Addresses : playerScores'[a] >= playerScores[a]

C9_ScoreMonotonic == [][C9_Step]_vars

C9_Witness ==
  \E p \in Addresses, r1 \in RoundIds, r2 \in RoundIds :
    /\ Revealed(p, r1) /\ playerAnswers[r1][p].isCorrect
    /\ Revealed(p, r2) /\ ~playerAnswers[r2][p].isCorrect
    /\ playerScores[p] > 0

(***************************************************************************)
(* C10: a successful revealAnswer records isCorrect = TRUE exactly when    *)
(* the answer is, character for character, the correctAnswer of the round; *)
(* the salt has no part in it.                                             *)
(***************************************************************************)
C10_ExactMatch ==
  \A p \in Addresses, r \in RoundIds :
    Revealed(p, r) =>
      (playerAnswers[r][p].isCorrect
         <=> revealArgs[r][p].answer = rounds[r].correctAnswer)

C10_Witness ==
  \E p \in Addresses, r \in RoundIds :
    /\ Revealed(p, r)
    /\ ~playerAnswers[r][p].isCorrect
    /\ revealArgs[r][p].answer # rounds[r].correctAnswer
    /\ Lower(revealArgs[r][p].answer) = Lower(rounds[r].correctAnswer)

(***************************************************************************)
(* Rewards.  The events a step appended to rewardLog, the positions of a   *)
(* players list, and the tokens the events of a log moved to an address.   *)
(***************************************************************************)
NewRewards == SubSeq(rewardLog', Len(rewardLog) + 1, Len(rewardLog'))

Positions(players) == 0..(Len(players) - 1)

RECURSIVE AmountTo(_, _)
AmountTo(log, a) ==
  IF log = <<>> THEN 0
  ELSE (IF Head(log).player = a THEN Head(log).amount ELSE 0)
         + AmountTo(Tail(log), a)

RevealedCorrect(p, r) ==
  playerAnswers[r][p].hasRevealed /\ playerAnswers[r][p].isCorrect

RevealedWrong(p, r) ==
  playerAnswers[r][p].hasRevealed /\ ~playerAnswers[r][p].isCorrect

\* The event of the step for position i of the list, of the given amount.
Pays(r, players, i, amount) ==
  \E k \in DOMAIN NewRewards :
    NewRewards[k] = RewardDistributed(r, i, players[i + 1], amount)

(***************************************************************************)
(* C11: a successful distributeRewards pays the player at each position i  *)
(* who revealed correctly CORRECT_REWARD + BONUS_REWARD when i < 5 and     *)
(* CORRECT_REWARD when i >= 5, whatever the earlier positions hold; the    *)
(* tokens each address receives are those of the events of the call.       *)
(***************************************************************************)
C11_EventAmounts ==
  \A k \in DOMAIN rewardLog :
    LET e == rewardLog[k] IN
    RevealedCorrect(e.player, e.roundId) =>
      e.amount = (IF e.pos < 5 THEN 15 ELSE 10)

C11_RewardOfCorrect ==
  \A r \in RoundIds, players \in PlayerLists :
    \A i \in Positions(players) :
      RevealedCorrect(players[i + 1], r) =>
        Reward(playerAnswers[r][players[i + 1]], i)
          = (IF i < 5 THEN 15 ELSE 10)

C11_Step ==
  rewardLog' # rewardLog =>
    \A r \in RoundIds, players \in PlayerLists :
      DistributeRewards(Owner, r, players) =>
        /\ \A i \in Positions(players) :
             RevealedCorrect(players[i + 1], r) =>
               Pays(r, players, i, IF i < 5 THEN 15 ELSE 10)
        /\ \A a \in Addresses :
             balances'[a] = balances[a] + AmountTo(NewRewards, a)

C12_EventAmounts ==
  \A k \in DOMAIN rewardLog :
    LET e == rewardLog[k] IN
    RevealedWrong(e.player, e.roundId) => e.amount = 1

C12_RewardOfWrong ==
  \A r \in RoundIds, players \in PlayerLists :
    \A i \in Positions(players) :
      RevealedWrong(players[i + 1], r) =>
        Reward(playerAnswers[r][players[i + 1]], i) = 1

C12_Step ==
  rewardLog' # rewardLog =>
    \A r \in RoundIds, players \in PlayerLists :
      DistributeRewards(Owner, r, players) =>
        \A i \in Positions(players) :
          RevealedWrong(players[i + 1], r) => Pays(r, players, i, 1)

C12_Participation ==
  /\ [](C12_EventAmounts /\ C12_RewardOfWrong)
  /\ [][C12_Step]_vars

C12_Witness ==
  \E j \in DOMAIN rewardLog, k \in DOMAIN rewardLog :
    /\ RevealedWrong(rewardLog[j].player, rewardLog[j].roundId)
    /\ rewardLog[j].pos = 0 /\ rewardLog[j].amount = 1
    /\ RevealedWrong(rewardLog[k].player, rewardLog[k].roundId)
    /\ rewardLog[k].pos = 5 /\ rewardLog[k].amount = 1

(***************************************************************************)
(* C13: a listed address that has not revealed for the round (committed    *)
(* and not revealed, or never committed) gets no transfer and is no cause  *)
(* of failure: a list of such addresses is accepted and pays nothing, and  *)
(* the revealed players after such an entry are still paid.                *)
(***************************************************************************)
Unrevealed(p, r) == ~playerAnswers[r][p].hasRevealed

C13_OnlyRevealedPaid ==
  \A k \in DOMAIN rewardLog :
    ~Unrevealed(rewardLog[k].player, rewardLog[k].roundId)

C13_UnrevealedNoError ==
  \A r \in RoundIds, players \in PlayerLists :
    ( /\ DistributeRewardsChecks(Owner, r) = ""
      /\ \A i \in Positions(players) : Unrevealed(players[i + 1], r) )
    => /\ DistributeRewardsErr(Owner, r, players) = ""
       /\ PayFrom(r, players, 0, balances).log = <<>>

C13_Step ==
  rewardLog' # rewardLog =>
    \A r \in RoundIds, players \in PlayerLists :
      DistributeRewards(Owner, r, players) =>
        \A i \in Positions(players) :
          Unrevealed(players[i + 1], r)
            <=> ~(\E k \in DOMAIN NewRewards : NewRewards[k].pos = i)

C13_SkipUnrevealed ==
  /\ [](C13_OnlyRevealedPaid /\ C13_UnrevealedNoError)
  /\ [][C13_Step]_vars

C13_Witness ==
  /\ Len(rewardLog) = 1
  /\ rewardLog[1].pos = 1
  /\ Unrevealed(Owner, rewardLog[1].roundId)
  /\ commits[rewardLog[1].roundId][Owner] = 1
  /\ playerAnswers[rewardLog[1].roundId][Owner].answerHash # ZeroHash

(***************************************************************************)
(* C14: distributeRewards keeps no record of payment.  Whatever was paid   *)
(* before, a call on an active round past its endTime, the game holding    *)
(* enough, succeeds and pays one reward for each position that lists a     *)
(* revealed player; a call changes no round, commitment or ledger entry.   *)
(***************************************************************************)
Covered(players) ==
  balances[Game] >= Len(players) * (CORRECT_REWARD + BONUS_REWARD)

RevealedPositions(r, players) ==
  {i \in Positions(players) : playerAnswers[r][players[i + 1]].hasRevealed}

C14_PaysAgain ==
  \A r \in RoundIds, players \in PlayerLists :
    (rounds[r].isActive /\ now >= rounds[r].endTime /\ Covered(players))
    => /\ DistributeRewardsErr(Owner, r, players) = ""
       /\ Len(PayFrom(r, players, 0, balances).log)
            = Cardinality(RevealedPositions(r, players))

C14_Step ==
  rewardLog' # rewardLog =>
    /\ UNCHANGED <<now, storage, plays>>
    /\ \A r \in RoundIds, players \in PlayerLists :
         DistributeRewards(Owner, r, players) =>
           Len(NewRewards) = Cardinality(RevealedPositions(r, players))

C14_NoPaymentRecord == []C14_PaysAgain /\ [][C14_Step]_vars

C14_Witness ==
  \E j \in DOMAIN rewardLog, k \in DOMAIN rewardLog :
    /\ j < k
    /\ rewardLog[j] = rewardLog[k]
    /\ balances[rewardLog[j].player] >= 2 * rewardLog[j].amount

(***************************************************************************)
(* C15: when the game does not hold what a list is owed, distributeRewards *)
(* fails with "Token transfer failed" and nothing of the call remains: a   *)
(* step that pays rewards pays the whole list, and the game's balance      *)
(* never goes below zero.                                                  *)
(***************************************************************************)
RECURSIVE Owed(_, _, _)
Owed(r, players, i) ==
  IF i >= Len(players) THEN 0
  ELSE Reward(playerAnswers[r][players[i + 1]], i) + Owed(r, players, i + 1)

C15_ShortfallFails ==
  /\ balances[Game] >= 0
  /\ \A r \in RoundIds, players \in PlayerLists :
       ( /\ rounds[r].isActive
         /\ now >= rounds[r].endTime
         /\ Owed(r, players, 0) > balances[Game] )
       => DistributeRewardsErr(Owner, r, players) = "Token transfer failed"

C15_Step ==
  rewardLog' # rewardLog =>
    \A r \in RoundIds, players \in PlayerLists :
      DistributeRewards(Owner, r, players) =>
        /\ DistributeRewardsErr(Owner, r, players) = ""
        /\ balances'[Game] = balances[Game] - Owed(r, players, 0)
        /\ balances'[Game] >= 0

Unauthorized == "Ownable: caller is not the owner"

NonOwners == Addresses \ {Owner}

C16_NonOwnerRejected ==
  \A s \in NonOwners :
    /\ StartNewRoundErr(s) = Unauthorized
    /\ EmergencyEndRoundErr(s) = Unauthorized
    /\ \A r \in RoundIds, players \in PlayerLists :
         DistributeRewardsErr(s, r, players) = Unauthorized
    /\ \A amt \in WithdrawAmounts : WithdrawTokensErr(s, amt) = Unauthorized

C16_Step ==
  \A s \in NonOwners :
    /\ \A q \in Questions, c \in CorrectAnswers : ~StartNewRound(s, q, c)
    /\ \A r \in RoundIds : ~EmergencyEndRound(s, r)
    /\ \A r \in RoundIds, players \in PlayerLists :
         ~DistributeRewards(s, r, players)
    /\ \A amt \in WithdrawAmounts : ~WithdrawTokens(s, amt)

C16_OwnerOnly == []C16_NonOwnerRejected /\ [][C16_Step]_vars

C16_Witness ==
  \E s \in NonOwners, r \in RoundIds, u \in RoundIds :
    /\ rounds[r].isActive /\ now < rounds[r].endTime
    /\ DistributeRewardsErr(Owner, r, <<>>) = "Round still active"
    /\ DistributeRewardsErr(s, r, <<>>) = Unauthorized
    /\ u > currentRoundId
    /\ DistributeRewardsErr(Owner, u, <<>>) = "Round not active"
    /\ DistributeRewardsErr(s, u, <<>>) = Unauthorized
    /\ WithdrawTokensErr(Owner, PARTICIPATION_REWARD) = "Token transfer failed"
    /\ WithdrawTokensErr(s, PARTICIPATION_REWARD) = Unauthorized

(***************************************************************************)
(* C17: distributeRewards called by the owner before the round's endTime,  *)
(* after the round was emergency-ended or for a round never created fails  *)
(* with InvalidState; every reward is paid in a step in which its round is *)
(* active and past its endTime.                                            *)
(***************************************************************************)
C17_ClosedRoundRejects ==
  \A r \in RoundIds, players \in PlayerLists :
    (~rounds[r].isActive \/ now < rounds[r].endTime \/ r > currentRoundId)
      => DistributeRewardsErr(Owner, r, players) \in InvalidState

C17_Step ==
  \A k \in DOMAIN NewRewards :
    /\ rounds[NewRewards[k].roundId].isActive
    /\ now >= rounds[NewRewards[k].roundId].endTime
    /\ NewRewards[k].roundId <= currentRoundId

C17_DistributionWindow == []C17_ClosedRoundRejects /\ [][C17_Step]_vars

C17_Witness ==
  \E r \in RoundIds, u \in RoundIds, p \in Addresses :
    /\ r <= currentRoundId
    /\ ~rounds[r].isActive
    /\ playerAnswers[r][p].hasRevealed
    /\ Owed(r, <<p>>, 0) <= balances[Game]
    /\ DistributeRewardsErr(Owner, r, <<p>>) = "Round not active"
    /\ rounds[u].isActive /\ now < rounds[u].endTime
    /\ DistributeRewardsErr(Owner, u, <<p>>) = "Round still active"

(***************************************************************************)
(* C18: every successful startNewRound creates the round with id           *)
(* currentRoundId + 1, with startTime = now, endTime = now + 60,           *)
(* isActive = true, totalPlayers = 0 and the question and correctAnswer    *)
(* that were supplied.                                                     *)
(***************************************************************************)
C18_Step ==
  currentRoundId' # currentRoundId =>
    \E question \in Questions, correctAnswer \in CorrectAnswers :
      /\ StartNewRound(Owner, question, correctAnswer)
      /\ rounds'[currentRoundId + 1].startTime = now
      /\ rounds'[currentRoundId + 1].endTime = now + 60
      /\ rounds'[currentRoundId + 1].isActive
      /\ rounds'[currentRoundId + 1].totalPlayers = 0
      /\ rounds'[currentRoundId + 1].question = question
      /\ rounds'[currentRoundId + 1].correctAnswer = correctAnswer

C18_NewRoundFields == [][C18_Step]_vars

C18_Witness ==
  /\ currentRoundId = 2
  /\ rounds[1].startTime = 0 /\ rounds[1].endTime = 60
  /\ rounds[2].startTime = 60 /\ rounds[2].endTime = 120
  /\ rounds[2].isActive /\ rounds[2].totalPlayers = 0
  /\ rounds[1].correctAnswer # rounds[2].correctAnswer
  /\ rounds[2].question \in Questions

(***************************************************************************)
(* C19: currentRoundId is 0 before any round; the rounds that exist are    *)
(* exactly those with ids 1..currentRoundId; currentRoundId changes only   *)
(* in a successful startNewRound, which raises it by one and creates the   *)
(* round with that id; a round once created is never created again.        *)
(***************************************************************************)
Created(r) == rounds[r] # ZeroRound

C19_StartsAtZero == currentRoundId = 0 /\ \A r \in RoundIds : ~Created(r)

C19_NoGaps == \A r \in RoundIds : Created(r) <=> r <= currentRoundId

C19_Step ==
  /\ currentRoundId' \in {currentRoundId, currentRoundId + 1}
  /\ currentRoundId' # currentRoundId =>
       \E question \in Questions, correctAnswer \in CorrectAnswers :
         StartNewRound(Owner, question, correctAnswer)
  /\ \A r \in RoundIds :
       Created(r) =>
         /\ rounds'[r].startTime = rounds[r].startTime
         /\ rounds'[r].endTime = rounds[r].endTime
         /\ rounds'[r].question = rounds[r].question
         /\ rounds'[r].correctAnswer = rounds[r].correctAnswer
  /\ \A r \in RoundIds :
       (~Created(r) /\ rounds'[r] # ZeroRound) => r = currentRoundId'

C19_SequentialIds == C19_StartsAtZero /\ []C19_NoGaps /\ [][C19_Step]_vars

C19_Witness ==
  /\ currentRoundId = MaxRounds
  /\ \A r \in RoundIds : Created(r)
  /\ \A r \in RoundIds \ {1} : rounds[r].startTime > rounds[r - 1].startTime
  /\ \E r \in RoundIds : ~rounds[r].isActive
  /\ \E r \in RoundIds, p \in Addresses : playerAnswers[r][p].hasRevealed

(***************************************************************************)
(* C20: emergencyEndRound by the owner is accepted whatever the time and   *)
(* the state of the round; it sets the round's isActive to false and       *)
(* leaves the round's other fields, the other rounds, currentRoundId,      *)
(* every commitment, every ledger entry and every balance unchanged.       *)
(***************************************************************************)
C20_AlwaysAccepted == EmergencyEndRoundErr(Owner) = ""

Ended(r) == rounds[r].isActive /\ ~rounds'[r].isActive

C20_Step ==
  \A r \in RoundIds :
    (Ended(r) \/ EmergencyEndRound(Owner, r)) =>
      /\ ~rounds'[r].isActive
      /\ rounds'[r].startTime = rounds[r].startTime
      /\ rounds'[r].endTime = rounds[r].endTime
      /\ rounds'[r].question = rounds[r].question
      /\ rounds'[r].correctAnswer = rounds[r].correctAnswer
      /\ rounds'[r].totalPlayers = rounds[r].totalPlayers
      /\ \A u \in RoundIds \ {r} : rounds'[u] = rounds[u]
      /\ currentRoundId' = currentRoundId
      /\ playerAnswers' = playerAnswers
      /\ playerScores' = playerScores
      /\ playerStreaks' = playerStreaks
      /\ lastPlayedRound' = lastPlayedRound
      /\ balances' = balances
      /\ now' = now

C20_EmergencyEnd == []C20_AlwaysAccepted /\ [][C20_Step]_vars

C20_Witness ==
  \E r \in RoundIds, u \in RoundIds, p \in Addresses :
    /\ ~rounds[r].isActive /\ now < rounds[r].endTime
    /\ rounds[r].totalPlayers > 0
    /\ playerAnswers[r][p].answerHash # ZeroHash
    /\ ~rounds[u].isActive /\ now >= rounds[u].endTime
    /\ Created(u)

(***************************************************************************)
(* C21: a created round's isActive goes from true to false only in an      *)
(* emergencyEndRound step for that round; the passage of time, a commit, a *)
(* reveal, a distribution and a later startNewRound leave it alone; a      *)
(* created round that is inactive stays inactive.                          *)
(***************************************************************************)
C21_Step ==
  \A r \in RoundIds :
    /\ Ended(r) => EmergencyEndRound(Owner, r)
    /\ ( \/ now' # now
         \/ plays' # plays
         \/ rewardLog' # rewardLog
         \/ currentRoundId' # currentRoundId )
       => (Created(r) => rounds'[r].isActive = rounds[r].isActive)
    /\ (Created(r) /\ ~rounds[r].isActive) => ~rounds'[r].isActive

C21_OnlyEmergencyEnds == [][C21_Step]_vars

C21_Witness ==
  \E r \in RoundIds, u \in RoundIds, p \in Addresses :
    /\ rounds[r].isActive /\ now >= rounds[r].endTime
    /\ Revealed(p, r)
    /\ \E k \in DOMAIN rewardLog : rewardLog[k].roundId = r
    /\ u > r /\ Created(u) /\ ~rounds[u].isActive

(***************************************************************************)
(* C22: for a player with an unrevealed commitment in an active round,     *)
(* revealAnswer with the matching answer and salt is accepted at every     *)
(* time from endTime on, whatever rounds were started and rewards paid in  *)
(* between; for a round that was emergency-ended every revealAnswer fails  *)
(* with an InvalidState error.                                             *)
(***************************************************************************)
Matching(p, r, a, s) ==
  playerAnswers[r][p].answerHash = keccak256(encodePacked2(a, s))

C22_RevealNeverExpires ==
  \A p \in Addresses, r \in RoundIds, a \in Answers, s \in Salts :
    (Revealable(p, r) /\ Matching(p, r, a, s)) =>
      /\ RevealAnswerErr(p, r, a, s) = ""
      /\ steps < MaxSteps => ENABLED RevealAnswer(p, r, a, s)

C22_EndedRoundRejects ==
  \A p \in Addresses, r \in RoundIds, a \in Answers, s \in Salts :
    (Created(r) /\ ~rounds[r].isActive) =>
      RevealAnswerErr(p, r, a, s) \in InvalidState

C22_NoRevealDeadline == C22_RevealNeverExpires /\ C22_EndedRoundRejects

C22_Witness ==
  \E p \in Addresses, r \in RoundIds, a \in Answers, s \in Salts :
    /\ Revealable(p, r) /\ Matching(p, r, a, s)
    /\ now >= rounds[r].endTime + ROUND_DURATION
    /\ \E k \in DOMAIN rewardLog : rewardLog[k].roundId = r
    /\ RevealAnswerErr(p, r, a, s) = ""

(***************************************************************************)
(* C23: each (round, address) pair moves only forward through NoCommit,    *)
(* Committed, Revealed, one stage at a time: a commit is accepted only in  *)
(* NoCommit and a reveal only in Committed; hasRevealed never goes back to *)
(* false and isCorrect does not change once the reveal is made.            *)
(***************************************************************************)
Stage(answer) ==
  IF answer.hasRevealed THEN 2
  ELSE IF answer.answerHash # ZeroHash THEN 1
  ELSE 0

C23_Step ==
  \A p \in Addresses, r \in RoundIds :
    LET before == playerAnswers[r][p]
        after == playerAnswers'[r][p]
    IN
    /\ Stage(after) \in {Stage(before), Stage(before) + 1}
    /\ CommitStep(p, r) => Stage(before) = 0
    /\ RevealStep(p, r) => Stage(before) = 1 /\ Stage(after) = 2
    /\ Stage(after) = 2 /\ Stage(before) = 1 => RevealStep(p, r)
    /\ Stage(after) = 1 /\ Stage(before) = 0 => CommitStep(p, r)
    /\ before.hasRevealed =>
         after.hasRevealed /\ after.isCorrect = before.isCorrect

C23_ForwardOnly == [][C23_Step]_vars

C23_Witness ==
  \E r \in RoundIds, u \in RoundIds, p \in Addresses, q \in Addresses :
    /\ Stage(playerAnswers[r][p]) = 2 /\ playerAnswers[r][p].isCorrect
    /\ Stage(playerAnswers[r][q]) = 1
    /\ Stage(playerAnswers[u][p]) = 0 /\ Created(u)
    /\ now > rounds[r].endTime

(***************************************************************************)
(* C24: while distributeRewards is inside a transfer, a distributeRewards  *)
(* called from inside that transfer is rejected, so the rewards paid in    *)
(* one step are those of a single pass over one player list: their         *)
(* positions strictly increase.                                            *)
(***************************************************************************)
C24_Step ==
  \A j \in DOMAIN NewRewards, k \in DOMAIN NewRewards :
    j < k => NewRewards[j].pos < NewRewards[k].pos

C24_NoReentrantDistribution == [][C24_Step]_vars

(***************************************************************************)
(* C25: hasCommitted(player, roundId) is true exactly for the pairs with a *)
(* successful commitAnswer: true from the commit on, false without one.    *)
(***************************************************************************)
C25_HasCommittedIffCommit ==
  \A p \in Addresses, r \in RoundIds :
    hasCommitted(p, r) <=> commits[r][p] > 0

(***************************************************************************)
(* C26: in every round totalPlayers is the number of addresses for which   *)
(* hasCommitted is true.                                                   *)
(***************************************************************************)
C26_TotalPlayersCount ==
  \A r \in RoundIds :
    rounds[r].totalPlayers =
      Cardinality({p \in Addresses : hasCommitted(p, r)})

(***************************************************************************)
(* C27: the score, streak and lastPlayedRound of an address change only in *)
(* a successful revealAnswer of that address; startNewRound, commitAnswer, *)
(* emergencyEndRound, distributeRewards and withdrawTokens leave every     *)
(* ledger entry unchanged; getScore and getStreak return 0 for an address  *)
(* that has never revealed.                                                *)
(***************************************************************************)
Ledger(a) == <<playerScores[a], playerStreaks[a], lastPlayedRound[a]>>

NeverRevealed(a) == \A r \in RoundIds : ~Revealed(a, r)

C27_ZeroUntilReveal ==
  \A a \in Addresses :
    NeverRevealed(a) =>
      getScore(a) = 0 /\ getStreak(a) = 0 /\ lastPlayedRound[a] = 0

C27_Step ==
  /\ \A a \in Addresses :
       Ledger(a)' # Ledger(a) => \E r \in RoundIds : RevealStep(a, r)
  /\ ( \/ currentRoundId' # currentRoundId
       \/ commits' # commits
       \/ rewardLog' # rewardLog
       \/ balances' # balances
       \/ \E r \in RoundIds : Ended(r) )
     => \A a \in Addresses : Ledger(a)' = Ledger(a)

C27_LedgerFrame == []C27_ZeroUntilReveal /\ [][C27_Step]_vars

C27_Witness ==
  \E r \in RoundIds, a \in Addresses, b \in Addresses :
    /\ Revealed(a, r) /\ getScore(a) > 0 /\ getStreak(a) > 0
    /\ commits[r][b] > 0 /\ NeverRevealed(b)
    /\ getScore(b) = 0 /\ getStreak(b) = 0
    /\ rewardLog # <<>>
    /\ balances[Owner] > AmountTo(rewardLog, Owner)

(***************************************************************************)
(* C28: the streak of an address is the number of consecutive correct      *)
(* reveals at the end of its successful reveals, taken in the order they   *)
(* were made: 0 with no reveal or after an incorrect one; a round the      *)
(* address did not commit to, or did not reveal, does not reset it.        *)
(***************************************************************************)
RECURSIVE TrailingCorrect(_)
TrailingCorrect(log) ==
  IF log = <<>> \/ ~log[Len(log)].isCorrect THEN 0
  ELSE 1 + TrailingCorrect(SubSeq(log, 1, Len(log) - 1))

C28_StreakIsTrailingCorrect ==
  \A a \in Addresses : getStreak(a) = TrailingCorrect(revealLog[a])

C28_Witness ==
  \E a \in Addresses, b \in Addresses, r \in RoundIds :
    /\ Len(revealLog[a]) = 1 /\ revealLog[a][1].isCorrect
    /\ revealLog[a][1].roundId > r
    /\ Created(r) /\ ~Revealed(a, r)
    /\ getStreak(a) = 1
    /\ Len(revealLog[b]) = 1 /\ ~revealLog[b][1].isCorrect
    /\ getStreak(b) = 0

(***************************************************************************)
(* C29: over all the distributions of a round the bonus is paid to at most *)
(* five correct answers, and to one player at most once.                   *)
(***************************************************************************)
BonusPayments(r) ==
  {k \in DOMAIN rewardLog :
     rewardLog[k].roundId = r
       /\ rewardLog[k].amount = CORRECT_REWARD + BONUS_REWARD}

C29_BonusOncePerPlayer ==
  \A r \in RoundIds :
    /\ Cardinality(BonusPayments(r)) <= BonusPositions
    /\ \A j \in BonusPayments(r), k \in BonusPayments(r) :
         rewardLog[j].player = rewardLog[k].player => j = k

(***************************************************************************)
(* C30: getRoundInfo returns the stored startTime, endTime, question,      *)
(* correctAnswer, isActive and totalPlayers of a created round, the        *)
(* question and correctAnswer from the step that starts the round on; for  *)
(* an id never created it returns zero times, empty strings, false and 0.  *)
(***************************************************************************)
C30_ReturnsStored ==
  \A r \in RoundIds :
    IF r <= currentRoundId
      THEN /\ getRoundInfo(r)[1] = rounds[r].startTime
           /\ getRoundInfo(r)[2] = rounds[r].endTime
           /\ getRoundInfo(r)[3] = rounds[r].question
           /\ getRoundInfo(r)[4] = rounds[r].correctAnswer
           /\ getRoundInfo(r)[5] = rounds[r].isActive
           /\ getRoundInfo(r)[6] = rounds[r].totalPlayers
           /\ getRoundInfo(r)[3] \in Questions
           /\ getRoundInfo(r)[4] \in CorrectAnswers
      ELSE getRoundInfo(r) = <<0, 0, "", <<>>, FALSE, 0>>

C30_Step ==
  currentRoundId' # currentRoundId =>
    \E id \in RoundIds, question \in Questions,
       correctAnswer \in CorrectAnswers :
      /\ id = currentRoundId + 1
      /\ StartNewRound(Owner, question, correctAnswer)
      /\ getRoundInfo(id)' =
           <<now, now + ROUND_DURATION, question, correctAnswer, TRUE, 0>>

C30_RoundInfo == []C30_ReturnsStored /\ [][C30_Step]_vars

C30_Witness ==
  \E r \in RoundIds, u \in RoundIds :
    /\ r <= currentRoundId /\ u > currentRoundId
    /\ rounds[r].isActive /\ now < rounds[r].endTime
    /\ rounds[r].startTime > 0
    /\ getRoundInfo(r)[6] > 0
    /\ getRoundInfo(r)[4] = rounds[r].correctAnswer
    /\ getRoundInfo(u) = <<0, 0, "", <<>>, FALSE, 0>>

(***************************************************************************)
(* C31: revealAnswer reports the first failing precondition in the order   *)
(* round not active, window still open, no commitment, already revealed,   *)
(* hash mismatch.                                                          *)
(***************************************************************************)
C31_FirstFailure ==
  \A p \in Addresses, r \in RoundIds, a \in Answers, s \in Salts :
    LET err == RevealAnswerErr(p, r, a, s)
        stored == playerAnswers[r][p]
    IN
    /\ ~rounds[r].isActive => err = "Round not active"
    /\ (rounds[r].isActive /\ now < rounds[r].endTime)
         => err = "Round still active"
    /\ (rounds[r].isActive /\ now >= rounds[r].endTime
          /\ stored.answerHash = ZeroHash)
         => err = "No answer committed"
    /\ (rounds[r].isActive /\ now >= rounds[r].endTime
          /\ stored.answerHash # ZeroHash /\ stored.hasRevealed)
         => err = "Already revealed"
    /\ (rounds[r].isActive /\ now >= rounds[r].endTime
          /\ stored.answerHash # ZeroHash /\ ~stored.hasRevealed
          /\ ~Matching(p, r, a, s))
         => err = "Hash mismatch"
    /\ err \in InvalidState \cup
         {"No answer committed", "Already revealed", "Hash mismatch", ""}

C31_Witness ==
  \E p \in Addresses, q \in Addresses, r \in RoundIds, u \in RoundIds,
     a \in Answers, s \in Salts :
    /\ rounds[r].isActive /\ now >= rounds[r].endTime
    /\ playerAnswers[r][p].hasRevealed /\ ~Matching(p, r, a, s)
    /\ RevealAnswerErr(p, r, a, s) = "Already revealed"
    /\ rounds[u].isActive /\ now < rounds[u].endTime
    /\ playerAnswers[u][q].answerHash = ZeroHash
    /\ RevealAnswerErr(q, u, a, s) = "Round still active"

(***************************************************************************)
(* C32: a successful commitAnswer or revealAnswer of player p for round r  *)
(* changes only p's commitment for r, p's ledger entry (reveal only) and   *)
(* r's totalPlayers (commit only): the commitments of the other players,   *)
(* p's commitments in other rounds, the ledger entries of the other        *)
(* players and the other round records are unchanged.                      *)
(***************************************************************************)
OthersUntouched(p, r) ==
  /\ \A u \in RoundIds, q \in Addresses :
       (u # r \/ q # p) => playerAnswers'[u][q] = playerAnswers[u][q]
  /\ \A q \in Addresses \ {p} : Ledger(q)' = Ledger(q)
  /\ \A u \in RoundIds \ {r} : rounds'[u] = rounds[u]

C32_Step ==
  \A p \in Addresses, r \in RoundIds :
    /\ CommitStep(p, r) =>
         /\ OthersUntouched(p, r)
         /\ Ledger(p)' = Ledger(p)
         /\ rounds'[r] = [rounds[r] EXCEPT !.totalPlayers = @ + 1]
    /\ RevealStep(p, r) =>
         /\ OthersUntouched(p, r)
         /\ rounds'[r] = rounds[r]
         /\ playerAnswers'[r][p].answerHash = playerAnswers[r][p].answerHash
         /\ playerAnswers'[r][p].commitTime = playerAnswers[r][p].commitTime

C32_PlayerIsolation == [][C32_Step]_vars

C32_Witness ==
  \E p \in Addresses, q \in Addresses, r \in RoundIds, u \in RoundIds :
    /\ p # q /\ u # r
    /\ Revealed(p, r) /\ getScore(p) = 1
    /\ commits[r][q] = 1 /\ hasCommitted(q, r) /\ ~hasRevealed(q, r)
    /\ Ledger(q) = <<0, 0, 0>>
    /\ rounds[r].totalPlayers = 2
    /\ Created(u) /\ playerAnswers[u][p] = ZeroAnswer

(***************************************************************************)
(* C33: for every round and address, isCorrect implies hasRevealed, and    *)
(* hasRevealed implies hasCommitted (the stored answerHash is not zero).   *)
(***************************************************************************)
C33_FlagsImply ==
  \A p \in Addresses, r \in RoundIds :
    /\ isCorrect(p, r) => hasRevealed(p, r)
    /\ hasRevealed(p, r) => hasCommitted(p, r)

C33_Witness ==
  \E p \in Addresses, q \in Addresses, r \in RoundIds, u \in RoundIds :
    /\ isCorrect(p, r) /\ hasRevealed(p, r) /\ hasCommitted(p, r)
    /\ hasCommitted(q, r) /\ ~hasRevealed(q, r) /\ ~isCorrect(q, r)
    /\ commits[u][q] > 0 /\ ~hasCommitted(q, u)
    /\ ~hasRevealed(q, u) /\ ~isCorrect(q, u)

(***************************************************************************)
(* C34: the score of an address is the number of rounds in which its       *)
(* commitment has isCorrect true, and so at most the number of rounds      *)
(* created.                                                                *)
(***************************************************************************)
CorrectRounds(a) == {r \in RoundIds : isCorrect(a, r)}

C34_ScoreCountsCorrect ==
  \A a \in Addresses :
    /\ getScore(a) = Cardinality(CorrectRounds(a))
    /\ getScore(a) <= currentRoundId

C34_Witness ==
  \E a \in Addresses, r \in RoundIds, u \in RoundIds :
    /\ hasRevealed(a, r) /\ isCorrect(a, r)
    /\ hasRevealed(a, u) /\ ~isCorrect(a, u)
    /\ getScore(a) = 1

(***************************************************************************)
(* C35: the streak of an address never exceeds its score.                  *)
(***************************************************************************)
C35_StreakAtMostScore ==
  \A a \in Addresses : getStreak(a) <= getScore(a)

C35_Witness ==
  \E a \in Addresses :
    /\ Len(revealLog[a]) = 2
    /\ revealLog[a][1].isCorrect /\ ~revealLog[a][2].isCorrect
    /\ getStreak(a) = 0 /\ getScore(a) = 1

(***************************************************************************)
(* C36: once a non-zero answerHash is stored for a round and address, no   *)
(* later step changes that answerHash or its commitTime, and no further    *)
(* commit for the pair is accepted; the hash a successful reveal was       *)
(* checked against is that stored hash.                                    *)
(***************************************************************************)
C36_Step ==
  \A p \in Addresses, r \in RoundIds :
    hasCommitted(p, r) =>
      /\ playerAnswers'[r][p].answerHash = playerAnswers[r][p].answerHash
      /\ playerAnswers'[r][p].commitTime = playerAnswers[r][p].commitTime
      /\ ~CommitStep(p, r)

C36_RevealedAgainstStored ==
  \A p \in Addresses, r \in RoundIds :
    Revealed(p, r) =>
      /\ hasCommitted(p, r)
      /\ HashMatches(playerAnswers[r][p].answerHash,
                     revealArgs[r][p].answer, revealArgs[r][p].salt)

C36_CommitmentImmutable == []C36_RevealedAgainstStored /\ [][C36_Step]_vars

C36_Witness ==
  \E p \in Addresses, r \in RoundIds, u \in RoundIds :
    /\ commits[r][p] = 2 /\ hasCommitted(p, r)
    /\ Revealed(p, r)
    /\ playerAnswers[r][p].commitTime < now
    /\ u > r /\ Created(u)
    /\ \E v \in RoundIds : Created(v) /\ ~rounds[v].isActive

(***************************************************************************)
(* C37: a successful distributeRewards or withdrawTokens lowers the game's *)
(* balance by exactly the sum credited to the recipients; the total of all *)
(* balances does not change; the game's balance is never negative; no      *)
(* other operation moves tokens.                                           *)
(***************************************************************************)
RECURSIVE SumOver(_, _)
SumOver(bal, holders) ==
  IF holders = {} THEN 0
  ELSE LET h == CHOOSE x \in holders : TRUE
       IN bal[h] + SumOver(bal, holders \ {h})

TotalSupply(bal) == SumOver(bal, Addresses \cup {Game})

C37_NeverNegative == \A h \in Addresses \cup {Game} : balances[h] >= 0

C37_Step ==
  /\ balances' # balances =>
       /\ TotalSupply(balances') = TotalSupply(balances)
       /\ balances[Game] - balances'[Game] =
            SumOver(balances', Addresses) - SumOver(balances, Addresses)
       /\ \A a \in Addresses : balances'[a] >= balances[a]
       /\ \/ /\ rewardLog' # rewardLog
             /\ \A a \in Addresses :
                  balances'[a] = balances[a] + AmountTo(NewRewards, a)
          \/ \E amount \in WithdrawAmounts :
               /\ WithdrawTokens(Owner, amount)
               /\ balances'[Owner] = balances[Owner] + amount
  /\ ( \/ now' # now
       \/ plays' # plays
       \/ rounds' # rounds
       \/ currentRoundId' # currentRoundId )
     => balances' = balances

C37_TokenConservation == []C37_NeverNegative /\ [][C37_Step]_vars

C37_Witness ==
  \E a \in Addresses \ {Owner} :
    /\ balances[a] > 0 /\ balances[a] = AmountTo(rewardLog, a)
    /\ balances[Owner] > AmountTo(rewardLog, Owner)
    /\ balances[Game] < RewardFunding
    /\ TotalSupply(balances) = RewardFunding

(***************************************************************************)
(* C38: startNewRound leaves every existing round as it is, fields,        *)
(* commitments and isActive, so several rounds can be active at once; a    *)
(* commit, a reveal and a distribution for an earlier round depend on that *)
(* round's own endTime and isActive only.                                  *)
(***************************************************************************)
C38_Step ==
  currentRoundId' # currentRoundId =>
    /\ \A r \in RoundIds : r <= currentRoundId => rounds'[r] = rounds[r]
    /\ playerAnswers' = playerAnswers

C38_OwnWindowOnly ==
  \A r \in RoundIds, p \in Addresses :
    (r < currentRoundId /\ rounds[r].isActive) =>
      /\ (now < rounds[r].endTime /\ ~hasCommitted(p, r))
           => CommitAnswerErr(p, r) = ""
      /\ \A a \in Answers, s \in Salts :
           (Revealable(p, r) /\ Matching(p, r, a, s))
             => RevealAnswerErr(p, r, a, s) = ""
      /\ now >= rounds[r].endTime => DistributeRewardsChecks(Owner, r) = ""

C38_RoundsIndependent == []C38_OwnWindowOnly /\ [][C38_Step]_vars

C38_Witness ==
  \E r \in RoundIds, u \in RoundIds, p \in Addresses, q \in Addresses :
    /\ r < u /\ u <= currentRoundId
    /\ rounds[r].isActive /\ rounds[u].isActive
    /\ hasCommitted(p, r)
    /\ playerAnswers[r][p].commitTime >= rounds[u].startTime
    /\ now < rounds[r].endTime
    /\ ~hasCommitted(q, r) /\ CommitAnswerErr(q, r) = ""

=============================================================================
